---- MODULE Spec2Model ----
(***************************************************************************)
(* Model of the notes tool: utils.py (video-id extraction, response        *)
(* recovery, timestamp formatting, the PDF and Excel renderers) and the    *)
(* Streamlit script streamlit_app.py that drives them.                     *)
(*                                                                         *)
(* Text is modelled as a sequence of lexical units (one-character strings  *)
(* for URLs, lexemes for model responses and highlighted text), so that    *)
(* the regular expressions and replacements of the source are computed on  *)
(* positions the way the source computes them.                             *)
(***************************************************************************)
EXTENDS Integers, Sequences, FiniteSets, TLC

VARIABLES
    pc,                   \* position of the running script / function
    button,               \* streamlit_app.py:182 st.button(...) in the current run
    gemini_api_key,       \* streamlit_app.py:148 sidebar text_input
    video_url,            \* streamlit_app.py:158 sidebar text_input
    transcript_text,      \* streamlit_app.py:175 text_area
    video_id,             \* streamlit_app.py:165 get_video_id(video_url)
    response_text,        \* utils.py:89 response.text, the model's raw output
    cleaned_response,     \* utils.py:90 clean_gemini_response(response.text)
    summary_data,         \* utils.py:91/93 what summarize_with_gemini returns
    session_summary_data, \* streamlit_app.py:134 st.session_state.summary_data
    shown,                \* the messages the current run has put on the page
    downloads,            \* streamlit_app.py:255-269 the download buttons are on the page
    summarize_calls,      \* calls of summarize_with_gemini since the last user event
    session_at_event,     \* st.session_state.summary_data when the last user event came
    data,                 \* utils.py:137/251 the study guide given to the renderers
    output_path,          \* utils.py:137/251 the kind of target: "Path" or "BytesIO"
    fonts_ok,             \* the two font files are in font_path (utils.py:106-107)
    pdf_call,             \* what the last save_to_pdf call left behind
    excel_call,           \* what the last save_to_excel call left behind
    hl_text,              \* utils.py:118 the text given to write_highlighted_text
    written               \* utils.py:124-133 the cell / write calls it made, in order

widgetVars == <<gemini_api_key, video_url, transcript_text>>
recoveryVars == <<response_text, cleaned_response, summary_data>>
pageVars == <<button, session_summary_data, shown, downloads, summarize_calls, session_at_event>>
highlightVars == <<hl_text, written>>
renderVars == <<data, output_path, fonts_ok, pdf_call, excel_call, highlightVars>>

vars == <<pc, video_id, widgetVars, recoveryVars, pageVars, renderVars>>

(***************************************************************************)
(* Bounds                                                                  *)
(***************************************************************************)
MaxUrlChunks == 4
MaxTextChunks == 4
MaxFenceBody == 3
MaxItems == 1
MaxUiUrlChunks == 2
MaxHlChunks == 4

(***************************************************************************)
(* Generic helpers                                                         *)
(***************************************************************************)
None == [some |-> FALSE, v |-> <<>>]
Some(x) == [some |-> TRUE, v |-> x]

SeqsUpTo(S, n) == UNION { [1..k -> S] : k \in 0..n }

RECURSIVE Flatten(_)
Flatten(ss) == IF ss = <<>> THEN <<>> ELSE Head(ss) \o Flatten(Tail(ss))

Min(S) == CHOOSE x \in S : \A y \in S : x <= y
Max(S) == CHOOSE x \in S : \A y \in S : x >= y

\* s[i..j] occurs at position i of s
OccursAt(s, m, i) == i >= 1 /\ i + Len(m) - 1 <= Len(s) /\ SubSeq(s, i, i + Len(m) - 1) = m

(***************************************************************************)
(* utils.py: get_video_id                                                  *)
(***************************************************************************)
\* The five look-behind markers of `patterns`, in list order.
patterns == << <<"v", "=">>, <<"b", "e", "/">>, <<"l", "i", "v", "e", "/">>,
               <<"e", "m", "b", "e", "d", "/">>, <<"s", "h", "o", "r", "t", "s", "/">> >>

\* The negated character class [^&#?] of every pattern.
PatternStop == {"&", "#", "?"}

\* Positions where (?<=marker)[^stop]+ can start matching: right after an
\* occurrence of the marker, on a character of the class.
MatchStarts(url, marker, stop) ==
    { p \in 1..Len(url) : OccursAt(url, marker, p - Len(marker)) /\ url[p] \notin stop }

\* [^stop]+ is greedy: the match runs to the last character before the next
\* excluded character (or to the end of the url).
MatchEnd(url, p, stop) ==
    Max({ q \in p..Len(url) : \A r \in p..q : url[r] \notin stop })

\* re.search of (?<=marker)[^stop]+ in url: the leftmost match, or None.
SearchAfter(url, marker, stop) ==
    IF MatchStarts(url, marker, stop) = {} THEN None
    ELSE LET p == Min(MatchStarts(url, marker, stop))
         IN  Some(SubSeq(url, p, MatchEnd(url, p, stop)))

\* re.search(pattern, url) for one of the five patterns.
re_search_id(url, marker) == SearchAfter(url, marker, PatternStop)

RECURSIVE first_match(_, _)
first_match(url, i) ==
    IF i > Len(patterns) THEN None
    ELSE IF re_search_id(url, patterns[i]).some THEN re_search_id(url, patterns[i])
    ELSE first_match(url, i + 1)

get_video_id(url) == first_match(url, 1)

(***************************************************************************)
(* JSON values (what json.loads returns, and what the renderers walk).     *)
(* kind is "None", "str", "num", "list" or "obj"; s is a str's text as a   *)
(* sequence of lexical units, n a number's value, items a list's elements  *)
(* or an object's members [k, v] in insertion order.                       *)
(***************************************************************************)
JNone == [kind |-> "None", s |-> <<>>, n |-> 0, items |-> <<>>]
JStr(t) == [kind |-> "str", s |-> t, n |-> 0, items |-> <<>>]
JNum(x) == [kind |-> "num", s |-> <<>>, n |-> x, items |-> <<>>]
JList(xs) == [kind |-> "list", s |-> <<>>, n |-> 0, items |-> xs]
JObj(ms) == [kind |-> "obj", s |-> <<>>, n |-> 0, items |-> ms]

\* dict keys in insertion order
Keys(ms) == [i \in 1..Len(ms) |-> ms[i].k]
HasKey(ms, key) == \E i \in 1..Len(ms) : ms[i].k = key
\* d[key] = v: an existing key keeps its place and takes the new value
DictSet(ms, key, v) ==
    IF HasKey(ms, key)
    THEN [i \in 1..Len(ms) |-> IF ms[i].k = key THEN [k |-> key, v |-> v] ELSE ms[i]]
    ELSE Append(ms, [k |-> key, v |-> v])
\* d.get(key, default)
DictGet(ms, key, default) ==
    IF HasKey(ms, key) THEN ms[CHOOSE i \in 1..Len(ms) : ms[i].k = key].v ELSE default

\* Python truthiness of a JSON value (`if summary_data:`, `not values`)
Truthy(x) ==
    CASE x.kind = "None" -> FALSE
      [] x.kind = "str"  -> x.s # <<>>
      [] x.kind = "num"  -> x.n # 0
      [] OTHER           -> x.items # <<>>

(***************************************************************************)
(* Lexical units of a model response.                                      *)
(***************************************************************************)
\* the run of three backticks that opens and closes a fenced block
FENCE == "<3 backticks>"
StrLexemes == {"\"main_subject\"", "\"X\"", "\"topic_breakdown\""}
NumLexemes == {"7"}
\* the text of a string literal, the value of a number literal
StrText(lex) ==
    CASE lex = "\"main_subject\""    -> "main_subject"
      [] lex = "\"topic_breakdown\"" -> "topic_breakdown"
      [] OTHER                       -> "X"
NumVal(lex) == 7

IsSpace(c) == c = "\n"

\* the first position >= i that holds no whitespace (Len + 1 if none)
RECURSIVE SkipSpace(_, _)
SkipSpace(t, i) ==
    IF i <= Len(t) /\ IsSpace(t[i]) THEN SkipSpace(t, i + 1) ELSE i

\* str.strip()
RECURSIVE rstrip(_)
rstrip(t) == IF t # <<>> /\ IsSpace(t[Len(t)]) THEN rstrip(SubSeq(t, 1, Len(t) - 1)) ELSE t
strip(t) == LET i == SkipSpace(t, 1) IN rstrip(SubSeq(t, i, Len(t)))

(***************************************************************************)
(* utils.py: clean_gemini_response                                         *)
(* One re.search with two alternatives: a json-fenced object (group 1), or *)
(* an opening brace lazily matched to a closing brace (group 2).           *)
(***************************************************************************)
\* \s*``` matches right after position k
FenceAfter(t, k) == LET f == SkipSpace(t, k + 1) IN f <= Len(t) /\ t[f] = FENCE

\* where group 1 opens when the first alternative is tried at i: ```json\s*\{
Group1Open(t, i) == SkipSpace(t, i + 2)

\* the closing braces the first alternative can end group 1 on
Group1Closes(t, i) ==
    { k \in (Group1Open(t, i) + 1)..Len(t) : t[k] = "}" /\ FenceAfter(t, k) }

\* the first alternative matches at i
Alt1At(t, i) ==
    /\ i + 1 <= Len(t) /\ t[i] = FENCE /\ t[i + 1] = "json"
    /\ Group1Open(t, i) <= Len(t) /\ t[Group1Open(t, i)] = "{"
    /\ Group1Closes(t, i) # {}

\* .*? is lazy: group 1 ends on the first closing brace that lets the rest match
Group1(t, i) == SubSeq(t, Group1Open(t, i), Min(Group1Closes(t, i)))

\* the second alternative matches at i: \{.*?\}
Group2Closes(t, i) == { k \in (i + 1)..Len(t) : t[k] = "}" }
Alt2At(t, i) == t[i] = "{" /\ Group2Closes(t, i) # {}
Group2(t, i) == SubSeq(t, i, Min(Group2Closes(t, i)))

\* re.search scans start positions left to right, trying the alternatives in order
MatchPositions(t) == { i \in 1..Len(t) : Alt1At(t, i) \/ Alt2At(t, i) }

clean_gemini_response(t) ==
    IF MatchPositions(t) = {} THEN strip(t)
    ELSE LET i == Min(MatchPositions(t))
         IN  IF Alt1At(t, i) THEN Group1(t, i) ELSE Group2(t, i)

(***************************************************************************)
(* json.loads on a sequence of lexical units                               *)
(***************************************************************************)
ParseFail == [ok |-> FALSE, val |-> JNone, next |-> 0]
ParseOk(v, i) == [ok |-> TRUE, val |-> v, next |-> i]

\* Adjacent digits are one number: the end of the run of number literals at i,
\* and the value of the digits i..j read as one decimal literal.
RECURSIVE NumberEnd(_, _), NumberValue(_, _, _)
NumberEnd(t, i) ==
    IF i + 1 <= Len(t) /\ t[i + 1] \in NumLexemes THEN NumberEnd(t, i + 1) ELSE i
NumberValue(t, i, j) ==
    IF j = i THEN NumVal(t[i]) ELSE NumberValue(t, i, j - 1) * 10 + NumVal(t[j])

RECURSIVE ParseValue(_, _), ParseMembers(_, _, _)
\* a value starting at position i (whitespace already skipped)
ParseValue(t, i) ==
    IF i > Len(t) THEN ParseFail
    ELSE IF t[i] \in StrLexemes THEN ParseOk(JStr(<<StrText(t[i])>>), i + 1)
    ELSE IF t[i] \in NumLexemes
         THEN ParseOk(JNum(NumberValue(t, i, NumberEnd(t, i))), NumberEnd(t, i) + 1)
    ELSE IF t[i] = "{"
         THEN LET j == SkipSpace(t, i + 1)
              IN  IF j <= Len(t) /\ t[j] = "}" THEN ParseOk(JObj(<<>>), j + 1)
                  ELSE ParseMembers(t, j, <<>>)
    ELSE ParseFail

\* the members of an object from position i on, up to its closing brace
ParseMembers(t, i, acc) ==
    IF i > Len(t) \/ t[i] \notin StrLexemes THEN ParseFail
    ELSE LET c == SkipSpace(t, i + 1)
         IN  IF c > Len(t) \/ t[c] # ":" THEN ParseFail
             ELSE LET v == ParseValue(t, SkipSpace(t, c + 1))
                  IN  IF ~v.ok THEN ParseFail
                      ELSE LET acc2 == DictSet(acc, StrText(t[i]), v.val)
                               e == SkipSpace(t, v.next)
                           IN  IF e > Len(t) THEN ParseFail
                               ELSE IF t[e] = "}" THEN ParseOk(JObj(acc2), e + 1)
                               ELSE IF t[e] = "," THEN ParseMembers(t, SkipSpace(t, e + 1), acc2)
                               ELSE ParseFail

\* json.loads: one value, surrounded by optional whitespace, and nothing else
json_loads(t) ==
    LET r == ParseValue(t, SkipSpace(t, 1))
    IN  IF r.ok /\ SkipSpace(t, r.next) > Len(t) THEN r ELSE ParseFail

(***************************************************************************)
(* The model responses considered.                                         *)
(***************************************************************************)
Member == <<"\"main_subject\"", ":", "\"X\"">>
KeyColon == <<"\"topic_breakdown\"", ":">>
FenceOpen == <<FENCE, "json">>

TextChunks == { FenceOpen, <<FENCE>>, <<"{">>, <<"}">>, Member, KeyColon, <<",">>,
                <<"\n">>, <<"7">>, <<"\"X\"">>, <<"hello">> }
BraceChunks == { <<"{">>, <<"}">>, Member }

FreeTexts == { Flatten(cs) : cs \in SeqsUpTo(TextChunks, MaxTextChunks) }
\* text, then a fenced block
FencedTexts ==
    { Flatten(pre) \o FenceOpen \o <<"\n">> \o Flatten(body) \o <<"\n", FENCE>> :
        pre \in SeqsUpTo(BraceChunks, MaxFenceBody), body \in SeqsUpTo(BraceChunks, MaxFenceBody) }
\* an object whose first member holds a nested object: whole, or cut off
NestedTexts ==
    { <<"{">> \o KeyColon \o Flatten(body) \o tail :
        body \in SeqsUpTo(BraceChunks \cup { <<",">> }, MaxFenceBody),
        tail \in { <<>>, <<"}">>, <<",">> } }
Texts == FreeTexts \cup FencedTexts \cup NestedTexts

(***************************************************************************)
(* Text helpers shared by the renderers.                                   *)
(***************************************************************************)
HL_OPEN == <<"<", "h", "l", ">">>
HL_CLOSE == <<"<", "/", "h", "l", ">">>

\* str.replace(pat, ''): non-overlapping occurrences, left to right
RECURSIVE RemoveAll(_, _)
RemoveAll(t, pat) ==
    IF t = <<>> THEN <<>>
    ELSE IF OccursAt(t, pat, 1) THEN RemoveAll(SubSeq(t, Len(pat) + 1, Len(t)), pat)
    ELSE <<Head(t)>> \o RemoveAll(Tail(t), pat)

\* .replace('<hl>', '').replace('</hl>', '')
strip_hl(t) == RemoveAll(RemoveAll(t, HL_OPEN), HL_CLOSE)

\* key.replace('_', ' ').title() on the keys the model uses
Humanize(key) ==
    CASE key = "main_subject"    -> "Main Subject"
      [] key = "topic_breakdown" -> "Topic Breakdown"
      [] key = "key_vocabulary"  -> "Key Vocabulary"
      [] key = "extra_notes"     -> "Extra Notes"
      [] key = "topic"           -> "Topic"
      [] key = "details"         -> "Details"
      [] key = "detail"          -> "Detail"
      [] key = "points"          -> "Points"
      [] key = "term"            -> "Term"
      [] key = "time"            -> "Time"
      [] OTHER                   -> key

DigitChar == <<"0", "1", "2", "3", "4", "5", "6", "7", "8", "9">>

\* str(n) for n >= 0
RECURSIVE Decimal(_)
Decimal(n) == IF n < 10 THEN <<DigitChar[n + 1]>> ELSE Decimal(n \div 10) \o <<DigitChar[(n % 10) + 1]>>

\* the format spec :02
Pad2(n) == IF n < 10 THEN <<"0">> \o Decimal(n) ELSE Decimal(n)

(***************************************************************************)
(* utils.py: format_timestamp                                              *)
(***************************************************************************)
format_timestamp(seconds) ==
    <<"[">> \o Pad2(seconds \div 60) \o <<":">> \o Pad2(seconds % 60) \o <<"]">>

\* repr(x) / str(x) of a JSON value
RECURSIVE Repr(_), ReprList(_), ReprMembers(_)
Repr(x) ==
    CASE x.kind = "None" -> <<"None">>
      [] x.kind = "str"  -> <<"'">> \o x.s \o <<"'">>
      [] x.kind = "num"  -> Decimal(x.n)
      [] x.kind = "list" -> <<"[">> \o ReprList(x.items) \o <<"]">>
      [] OTHER           -> <<"{">> \o ReprMembers(x.items) \o <<"}">>
ReprList(xs) ==
    IF xs = <<>> THEN <<>>
    ELSE IF Len(xs) = 1 THEN Repr(xs[1])
    ELSE Repr(xs[1]) \o <<", ">> \o ReprList(Tail(xs))
ReprMembers(ms) ==
    IF ms = <<>> THEN <<>>
    ELSE LET one == <<"'", ms[1].k, "': ">> \o Repr(ms[1].v)
         IN  IF Len(ms) = 1 THEN one ELSE one \o <<", ">> \o ReprMembers(Tail(ms))

Str(x) == IF x.kind = "str" THEN x.s ELSE Repr(x)

\* int(x): defined on numbers (the strings of the model hold no digits)
CanInt(x) == x.kind = "num"

\* `for item in values`: a list yields its elements, a dict its keys, a str its
\* characters; a number or None raises TypeError
CanIterate(x) == x.kind \in {"list", "obj", "str"}
Iterate(x) ==
    CASE x.kind = "list" -> x.items
      [] x.kind = "obj"  -> [i \in 1..Len(x.items) |-> JStr(<<x.items[i].k>>)]
      [] OTHER           -> [i \in 1..Len(x.s) |-> JStr(<<x.s[i]>>)]

(***************************************************************************)
(* utils.py: PDF.write_highlighted_text and the document the PDF holds.    *)
(* The document is the sequence of drawing calls: op is the call, text its *)
(* text, link its link target.                                             *)
(***************************************************************************)
Draw(op, text) == [op |-> op, text |-> text, link |-> <<>>]
LinkCell(text, link) == [op |-> "link", text |-> text, link |-> link]

\* where the lazy <hl>.*?</hl> first matches in t: its start and its end
HlStarts(t) ==
    { i \in 1..Len(t) : OccursAt(t, HL_OPEN, i)
                        /\ \E j \in (i + 4)..Len(t) : OccursAt(t, HL_CLOSE, j) }
HlEnd(t, i) == Min({ j \in (i + 4)..Len(t) : OccursAt(t, HL_CLOSE, j) }) + 4

\* re.split with one capturing group: literal, tagged, literal, ...
RECURSIVE re_split_hl(_)
re_split_hl(t) ==
    IF HlStarts(t) = {} THEN <<t>>
    ELSE LET i == Min(HlStarts(t))
             e == HlEnd(t, i)
         IN  <<SubSeq(t, 1, i - 1), SubSeq(t, i, e)>> \o re_split_hl(SubSeq(t, e + 1, Len(t)))

\* part[4:-5]
InsideTags(part) == SubSeq(part, 5, Len(part) - 5)

RECURSIVE write_parts(_)
write_parts(parts) ==
    IF parts = <<>> THEN <<>>
    ELSE (IF OccursAt(Head(parts), HL_OPEN, 1)
          THEN <<Draw("highlight", InsideTags(Head(parts)))>>
          ELSE <<Draw("write", Head(parts))>>) \o write_parts(Tail(parts))

write_highlighted_text(text) == write_parts(re_split_hl(text))

(***************************************************************************)
(* utils.py: save_to_pdf                                                   *)
(***************************************************************************)
\* the outcome of a piece of the try block: it raised, or these drawing calls
Raised == [ok |-> FALSE, ops |-> <<>>]
Drawn(ops) == [ok |-> TRUE, ops |-> ops]
Then(a, b) == IF a.ok /\ b.ok THEN Drawn(a.ops \o b.ops) ELSE Raised

\* f"{video_id}"
VideoIdText(vid) == IF vid.some THEN vid.v ELSE <<"None">>

\* utils.py:20-24
EXPECTED_KEYS == { "main_subject", "topic_breakdown", "key_vocabulary",
                   "formulas_and_principles", "teacher_insights",
                   "exam_focus_points", "common_mistakes_explained" }

\* utils.py:253
base_url(vid) == <<"https.www.youtube.com/watch?v=">> \o VideoIdText(vid)

\* utils.py:271, 279
link_for(vid, timestamp_sec) == base_url(vid) \o <<"&t=">> \o Decimal(timestamp_sec) \o <<"s">>

\* utils.py:265
is_nested(item) == \E i \in 1..Len(item.items) : item.items[i].v.kind = "list"

\* utils.py:270-277, one detail_item
pdf_detail(vid, d) ==
    IF d.kind # "obj" \/ ~CanInt(DictGet(d.items, "time", JNum(0))) THEN Raised
    ELSE LET timestamp_sec == DictGet(d.items, "time", JNum(0)).n
             display_text == <<" ", "*", " ">> \o Str(DictGet(d.items, "detail", JStr(<<>>)))
         IN  Drawn(write_highlighted_text(display_text)
                   \o <<LinkCell(format_timestamp(timestamp_sec), link_for(vid, timestamp_sec))>>)

RECURSIVE pdf_details(_, _)
pdf_details(vid, ds) ==
    IF ds = <<>> THEN Drawn(<<>>)
    ELSE LET one == pdf_detail(vid, Head(ds))
         IN  IF one.ok THEN Then(one, pdf_details(vid, Tail(ds))) ELSE Raised

\* utils.py:282-288, the fields of a flat item
RECURSIVE pdf_fields(_)
pdf_fields(ms) ==
    IF ms = <<>> THEN <<>>
    ELSE (IF Head(ms).k # "time"
          THEN <<Draw("write", <<"*", " ", Humanize(Head(ms).k), ":", " ">>)>>
               \o write_highlighted_text(Str(Head(ms).v))
          ELSE <<>>) \o pdf_fields(Tail(ms))

\* utils.py:264-291, one item of a section
pdf_item(vid, item) ==
    IF item.kind # "obj" THEN Raised
    ELSE IF is_nested(item)
    THEN LET details == DictGet(item.items, "details", JList(<<>>))
         IN  IF ~CanIterate(details) THEN Raised
             ELSE Then(Drawn(<<Draw("topic", <<" ", " ">> \o Str(DictGet(item.items, "topic", JStr(<<>>))))>>),
                       pdf_details(vid, Iterate(details)))
    ELSE IF ~CanInt(DictGet(item.items, "time", JNum(0))) THEN Raised
         ELSE LET timestamp_sec == DictGet(item.items, "time", JNum(0)).n
              IN  Drawn(pdf_fields(item.items)
                        \o <<LinkCell(format_timestamp(timestamp_sec), link_for(vid, timestamp_sec))>>)

RECURSIVE pdf_items(_, _)
pdf_items(vid, items) ==
    IF items = <<>> THEN Drawn(<<>>)
    ELSE LET one == pdf_item(vid, Head(items))
         IN  IF one.ok THEN Then(one, pdf_items(vid, Tail(items))) ELSE Raised

\* utils.py:260-292, the loop over data.items()
RECURSIVE pdf_sections(_, _)
pdf_sections(vid, ms) ==
    IF ms = <<>> THEN Drawn(<<>>)
    ELSE IF Head(ms).k = "main_subject" \/ ~Truthy(Head(ms).v) THEN pdf_sections(vid, Tail(ms))
    ELSE IF ~CanIterate(Head(ms).v) THEN Raised
    ELSE LET sec == Then(Drawn(<<Draw("heading", <<Humanize(Head(ms).k)>>)>>),
                         pdf_items(vid, Iterate(Head(ms).v)))
         IN  IF sec.ok THEN Then(sec, pdf_sections(vid, Tail(ms))) ELSE Raised

\* utils.py:255-295, the try block: the document handed to pdf.output
pdf_try(d, vid, fonts) ==
    IF ~fonts \/ d.kind # "obj" THEN Raised
    ELSE Then(Drawn(<<Draw("title", Str(DictGet(d.items, "main_subject", JStr(<<"Video Summary">>))))>>),
              pdf_sections(vid, d.items))

\* What a call leaves behind: raised (an exception reached the caller), caught
\* (the except clause ran), ret (the value returned), and where bytes were
\* written: sink is "buffer", "path" or "none", bytes the content written.
NotCalled == [called |-> FALSE, raised |-> FALSE, caught |-> FALSE, ret |-> "-",
              sink |-> "none", bytes |-> <<>>]
Outcome(raised, caught, sink, bytes) ==
    [called |-> TRUE, raised |-> raised, caught |-> caught,
     ret |-> IF raised THEN "-" ELSE "None", sink |-> sink, bytes |-> bytes]

\* utils.py:251-298. output_path.name (line 252, before the try) exists on a
\* Path and raises AttributeError on an io.BytesIO.
save_to_pdf(d, vid, fonts, target) ==
    IF target = "BytesIO" THEN Outcome(TRUE, FALSE, "none", <<>>)
    ELSE IF ~pdf_try(d, vid, fonts).ok THEN Outcome(FALSE, TRUE, "none", <<>>)
    ELSE Outcome(FALSE, FALSE, "path", pdf_try(d, vid, fonts).ops)

(***************************************************************************)
(* utils.py: save_to_excel. A row is a dict: its cells [k, v] in insertion *)
(* order, k the column name and v the cell value.                          *)
(***************************************************************************)
NoRows == [ok |-> FALSE, rows |-> <<>>]
Rows(rs) == [ok |-> TRUE, rows |-> rs]
ThenRows(a, b) == IF a.ok /\ b.ok THEN Rows(a.rows \o b.rows) ELSE NoRows

\* utils.py:151-154, one detail of a nested item
excel_detail(row, detail) ==
    IF detail.kind # "obj" \/ DictGet(detail.items, "detail", JStr(<<>>)).kind # "str" THEN NoRows
    ELSE Rows(<<DictSet(DictSet(row, "Detail",
                                JStr(strip_hl(DictGet(detail.items, "detail", JStr(<<>>)).s))),
                        "Time (s)", DictGet(detail.items, "time", JNum(0)))>>)

RECURSIVE excel_details(_, _)
excel_details(row, ds) ==
    IF ds = <<>> THEN Rows(<<>>)
    ELSE LET one == excel_detail(row, Head(ds))
         IN  IF one.ok THEN ThenRows(one, excel_details(row, Tail(ds))) ELSE NoRows

\* utils.py:156-157, the fields of an item without a details list
RECURSIVE excel_fields(_, _)
excel_fields(row, ms) ==
    IF ms = <<>> THEN row
    ELSE excel_fields(DictSet(row, Humanize(Head(ms).k), JStr(strip_hl(Str(Head(ms).v)))), Tail(ms))

\* utils.py:148
has_details_list(item) ==
    HasKey(item.items, "details") /\ DictGet(item.items, "details", JNone).kind = "list"

\* utils.py:146-160, one item of a section
excel_item(section_name, item) ==
    LET row == <<[k |-> "Section", v |-> JStr(<<section_name>>)]>>
    IN  IF item.kind # "obj"
        THEN Rows(<<DictSet(row, "Item", JStr(Str(item)))>>)
        ELSE IF has_details_list(item)
        THEN excel_details(DictSet(row, "Topic", DictGet(item.items, "topic", JStr(<<>>))),
                           DictGet(item.items, "details", JNone).items)
        ELSE Rows(<<excel_fields(row, item.items)>>)

RECURSIVE excel_items(_, _)
excel_items(section_name, items) ==
    IF items = <<>> THEN Rows(<<>>)
    ELSE LET one == excel_item(section_name, Head(items))
         IN  IF one.ok THEN ThenRows(one, excel_items(section_name, Tail(items))) ELSE NoRows

\* utils.py:141-160, the loop over data.items()
RECURSIVE excel_sections(_)
excel_sections(ms) ==
    IF ms = <<>> THEN Rows(<<>>)
    ELSE IF Head(ms).k = "main_subject" \/ ~Truthy(Head(ms).v) THEN excel_sections(Tail(ms))
    ELSE IF ~CanIterate(Head(ms).v) THEN NoRows
    ELSE LET sec == excel_items(Humanize(Head(ms).k), Iterate(Head(ms).v))
         IN  IF sec.ok THEN ThenRows(sec, excel_sections(Tail(ms))) ELSE NoRows

\* utils.py:140-164, the try block: flat_data, the rows given to the DataFrame
excel_try(d) == IF d.kind # "obj" THEN NoRows ELSE excel_sections(d.items)

\* utils.py:137-167. output_path.name (line 138, before the try) exists on a
\* Path and raises AttributeError on an io.BytesIO.
save_to_excel(d, target) ==
    IF target = "BytesIO" THEN Outcome(TRUE, FALSE, "none", <<>>)
    ELSE IF ~excel_try(d).ok THEN Outcome(FALSE, TRUE, "none", <<>>)
    ELSE Outcome(FALSE, FALSE, "path", excel_try(d).rows)

(***************************************************************************)
(* The study guides considered.                                            *)
(***************************************************************************)
Obj2(k1, v1, k2, v2) == JObj(<<[k |-> k1, v |-> v1], [k |-> k2, v |-> v2]>>)

HlTexts == { <<"A">>, <<"A">> \o HL_OPEN \o <<"B">> \o HL_CLOSE }
Times == {0, 90}

LeafDetails == { Obj2("detail", JStr(t), "time", JNum(n)) : t \in HlTexts, n \in Times }
NestedItems == { Obj2("topic", JStr(<<"T">>), "details", JList(<<d>>)) : d \in LeafDetails }
FlatItems == { Obj2("term", JStr(t), "time", JNum(n)) : t \in HlTexts, n \in Times }
\* shapes the prompt does not ask for: a list under another name, a detail or
\* an item that is no mapping
OddItems == { Obj2("topic", JStr(<<"T">>), "points", JList(<<JStr(<<"A">>)>>)),
              Obj2("topic", JStr(<<"T">>), "details", JList(<<JStr(<<"A">>)>>)),
              JStr(<<"A">>) }
Items == NestedItems \cup FlatItems \cup OddItems

\* EXPECTED_KEYS holds the first of these; the second is a key outside it
SectionKeys == <<"topic_breakdown", "extra_notes">>
SectionLists == { JList(xs) : xs \in SeqsUpTo(Items, MaxItems) }

StudyGuides ==
    { JObj(subject \o first \o second) :
        subject \in { <<>>, <<[k |-> "main_subject", v |-> JStr(<<"X">>)]>> },
        first \in { <<>> } \cup { <<[k |-> SectionKeys[1], v |-> l]>> : l \in SectionLists },
        second \in { <<>> } \cup { <<[k |-> SectionKeys[2], v |-> l]>> : l \in SectionLists } }

(***************************************************************************)
(* The URLs considered: concatenations of markers, delimiters and a plain  *)
(* character.                                                              *)
(***************************************************************************)
UrlChunks == { patterns[i] : i \in 1..Len(patterns) }
                \cup { <<"&">>, <<"#">>, <<"?">>, <<"/">>, <<"a">> }

Urls == { Flatten(cs) : cs \in SeqsUpTo(UrlChunks, MaxUrlChunks) }

(***************************************************************************)
(* utils.py: summarize_with_gemini, given what the remote call does        *)
(***************************************************************************)
\* utils.py:91-93: the parsed value, or None when json.loads raises
loads_or_none(c) == IF json_loads(c).ok THEN json_loads(c).val ELSE JNone

\* utils.py:87-93: raises says that configure / generate_content / .text raised
summarize_with_gemini(raises, text) ==
    IF raises THEN JNone ELSE loads_or_none(clean_gemini_response(text))

(***************************************************************************)
(* States before anything ran                                              *)
(***************************************************************************)
WidgetsEmpty == gemini_api_key = <<>> /\ video_url = <<>> /\ transcript_text = <<>>
RecoveryIdle == response_text = <<>> /\ cleaned_response = None /\ summary_data = JNone
PageIdle ==
    /\ button = FALSE
    /\ session_summary_data = JNone
    /\ shown = {}
    /\ downloads = FALSE
    /\ summarize_calls = 0
    /\ session_at_event = JNone
HighlightIdle == hl_text = <<>> /\ written = <<>>
RenderIdle ==
    /\ data = JNone
    /\ output_path = "Path"
    /\ fonts_ok = TRUE
    /\ pdf_call = NotCalled
    /\ excel_call = NotCalled
    /\ HighlightIdle

(***************************************************************************)
(* SpecUrl: get_video_id applied to every bounded URL.                     *)
(***************************************************************************)
InitUrl ==
    /\ pc = "get_video_id"
    /\ video_url \in Urls
    /\ video_id = None
    /\ gemini_api_key = <<>> /\ transcript_text = <<>>
    /\ RecoveryIdle /\ PageIdle /\ RenderIdle

CallGetVideoId ==
    /\ pc = "get_video_id"
    /\ video_id' = get_video_id(video_url)
    /\ pc' = "returned"
    /\ UNCHANGED <<widgetVars, recoveryVars, pageVars, renderVars>>

NextUrl == CallGetVideoId

SpecUrl == InitUrl /\ [][NextUrl]_vars

(***************************************************************************)
(* SpecRecovery: the body of summarize_with_gemini on every bounded        *)
(* response, and on a remote call that raises.                             *)
(***************************************************************************)
InitRecovery ==
    /\ pc = "generate_content"
    /\ response_text \in Texts
    /\ cleaned_response = None
    /\ summary_data = JNone
    /\ gemini_api_key = <<"k">> /\ transcript_text = <<"t">> /\ video_url = <<>>
    /\ video_id = None
    /\ PageIdle /\ RenderIdle

\* utils.py:88-89 raise (network, auth, quota): the except clause returns None
GenerateContentRaises ==
    /\ pc = "generate_content"
    /\ summary_data' = summarize_with_gemini(TRUE, response_text)
    /\ pc' = "returned"
    /\ UNCHANGED <<video_id, widgetVars, response_text, cleaned_response, pageVars, renderVars>>

\* utils.py:90
CleanResponse ==
    /\ pc = "generate_content"
    /\ cleaned_response' = Some(clean_gemini_response(response_text))
    /\ pc' = "json_loads"
    /\ UNCHANGED <<video_id, widgetVars, response_text, summary_data, pageVars, renderVars>>

\* utils.py:91-93
JsonLoads ==
    /\ pc = "json_loads"
    /\ summary_data' = loads_or_none(cleaned_response.v)
    /\ pc' = "returned"
    /\ UNCHANGED <<video_id, widgetVars, response_text, cleaned_response, pageVars, renderVars>>

NextRecovery == GenerateContentRaises \/ CleanResponse \/ JsonLoads

SpecRecovery == InitRecovery /\ [][NextRecovery]_vars

(***************************************************************************)
(* SpecRender: a caller hands every bounded study guide to both renderers, *)
(* with a path or an in-memory buffer as target.                           *)
(***************************************************************************)
VideoIds == { Some(<<"a", "b">>), None }
Targets == {"Path", "BytesIO"}

InitRender ==
    /\ pc = "render"
    /\ data \in StudyGuides
    /\ video_id \in VideoIds
    /\ output_path \in Targets
    /\ fonts_ok \in BOOLEAN
    /\ pdf_call = NotCalled
    /\ excel_call = NotCalled
    /\ HighlightIdle
    /\ WidgetsEmpty /\ RecoveryIdle /\ PageIdle

CallSaveToPdf ==
    /\ pc = "render"
    /\ ~pdf_call.called
    /\ pdf_call' = save_to_pdf(data, video_id, fonts_ok, output_path)
    /\ UNCHANGED <<pc, video_id, widgetVars, recoveryVars, pageVars,
                   data, output_path, fonts_ok, excel_call, highlightVars>>

CallSaveToExcel ==
    /\ pc = "render"
    /\ ~excel_call.called
    /\ excel_call' = save_to_excel(data, output_path)
    /\ UNCHANGED <<pc, video_id, widgetVars, recoveryVars, pageVars,
                   data, output_path, fonts_ok, pdf_call, highlightVars>>

NextRender == CallSaveToPdf \/ CallSaveToExcel

SpecRender == InitRender /\ [][NextRender]_vars

(***************************************************************************)
(* SpecHighlight: PDF.write_highlighted_text on every bounded text: tags,  *)
(* matched or not, a tagged span and plain characters in any order.        *)
(***************************************************************************)
HlChunks == { HL_OPEN, HL_CLOSE, <<"A">>, HL_OPEN \o <<"B">> \o HL_CLOSE }
HlInputs == { Flatten(cs) : cs \in SeqsUpTo(HlChunks, MaxHlChunks) }

InitHighlight ==
    /\ pc = "write_highlighted_text"
    /\ hl_text \in HlInputs
    /\ written = <<>>
    /\ video_id = None
    /\ data = JNone
    /\ output_path = "Path"
    /\ fonts_ok = TRUE
    /\ pdf_call = NotCalled
    /\ excel_call = NotCalled
    /\ WidgetsEmpty /\ RecoveryIdle /\ PageIdle

\* utils.py:118-134
CallWriteHighlightedText ==
    /\ pc = "write_highlighted_text"
    /\ written' = write_highlighted_text(hl_text)
    /\ pc' = "returned"
    /\ UNCHANGED <<video_id, widgetVars, recoveryVars, pageVars,
                   data, output_path, fonts_ok, pdf_call, excel_call, hl_text>>

NextHighlight == CallWriteHighlightedText

SpecHighlight == InitHighlight /\ [][NextHighlight]_vars

(***************************************************************************)
(* Spec: the Streamlit script. Every user event (an edit of a widget, a    *)
(* click on Generate Study Guide) and every st.experimental_rerun runs the *)
(* script from the top: sidebar, input column, preview column.             *)
(***************************************************************************)
ApiKeys == { <<>>, <<"k">> }
Transcripts == { <<>>, <<"\n">>, <<"t">>, <<"\n", "t">> }
UiUrlChunks == { <<"v", "=">>, <<"a">>, <<"&">> }
UiUrls == { Flatten(cs) : cs \in SeqsUpTo(UiUrlChunks, MaxUiUrlChunks) }
\* what the remote model may answer
UiTexts == { <<"{">> \o Member \o <<"}">>,
             FenceOpen \o <<"\n", "{">> \o Member \o <<"}", "\n", FENCE>>,
             <<"{">> \o Member \o <<",">>,
             <<"{", "}">>,
             <<"hello">>,
             <<"7">> }

ValidationErrors == {"api_key_required", "transcript_required", "invalid_url"}

\* the handler with the video-id check left out
validation_error_without_url(key, transcript, vid) ==
    IF key = <<>> THEN "api_key_required"
    ELSE IF strip(transcript) = <<>> THEN "transcript_required"
    ELSE "none"

\* streamlit_app.py:184-192: the error the handler stops on, or "none"
validation_error(key, transcript, vid) ==
    IF key = <<>> THEN "api_key_required"
    ELSE IF strip(transcript) = <<>> THEN "transcript_required"
    ELSE IF ~vid.some THEN "invalid_url"
    ELSE "none"

\* streamlit_app.py:215-233 raise nothing on d: the success line and the topic
\* preview read d, its topics and the first five details of each
detail_previews(det) ==
    \A i \in 1..Len(det.items) :
        i <= 5 => /\ det.items[i].kind = "obj"
                  /\ DictGet(det.items[i].items, "time", JNum(0)).kind = "num"
                  /\ DictGet(det.items[i].items, "detail", JStr(<<>>)).kind = "str"
topic_previews(item) ==
    /\ item.kind = "obj"
    /\ LET det == DictGet(item.items, "details", JList(<<>>))
       IN  \/ det.kind = "str" /\ det.s = <<>>
           \/ det.kind = "list" /\ detail_previews(det)
preview_ok(d) ==
    /\ d.kind = "obj"
    /\ LET tb == DictGet(d.items, "topic_breakdown", JList(<<>>))
       IN  /\ CanIterate(tb)
           /\ \A i \in 1..Len(Iterate(tb)) : topic_previews(Iterate(tb)[i])

Init ==
    /\ pc = "sidebar"
    /\ video_id = None
    /\ WidgetsEmpty /\ RecoveryIdle /\ PageIdle
    /\ data = JNone
    /\ output_path = "BytesIO"
    /\ fonts_ok \in BOOLEAN
    /\ pdf_call = NotCalled
    /\ excel_call = NotCalled
    /\ HighlightIdle

\* a user event starts a run of the script on a fresh page
StartRun(clicked) ==
    /\ pc = "idle"
    /\ pc' = "sidebar"
    /\ button' = clicked
    /\ shown' = {}
    /\ downloads' = FALSE
    /\ summarize_calls' = 0
    /\ session_at_event' = session_summary_data
    /\ pdf_call' = NotCalled
    /\ excel_call' = NotCalled
    /\ UNCHANGED <<video_id, recoveryVars, session_summary_data, data, output_path, fonts_ok,
                   highlightVars>>

EditApiKey ==
    /\ \E k \in ApiKeys \ {gemini_api_key} : gemini_api_key' = k
    /\ StartRun(FALSE)
    /\ UNCHANGED <<video_url, transcript_text>>

EditUrl ==
    /\ \E u \in UiUrls \ {video_url} : video_url' = u
    /\ StartRun(FALSE)
    /\ UNCHANGED <<gemini_api_key, transcript_text>>

EditTranscript ==
    /\ \E t \in Transcripts \ {transcript_text} : transcript_text' = t
    /\ StartRun(FALSE)
    /\ UNCHANGED <<gemini_api_key, video_url>>

ClickGenerate ==
    /\ StartRun(TRUE)
    /\ UNCHANGED widgetVars

\* streamlit_app.py:165
Sidebar ==
    /\ pc = "sidebar"
    /\ video_id' = get_video_id(video_url)
    /\ pc' = "button"
    /\ UNCHANGED <<widgetVars, recoveryVars, pageVars, renderVars>>

\* streamlit_app.py:182, the button was not clicked in this run
NoClick ==
    /\ pc = "button" /\ ~button
    /\ pc' = "preview"
    /\ UNCHANGED <<video_id, widgetVars, recoveryVars, pageVars, renderVars>>

\* streamlit_app.py:184-192: st.error, then st.stop ends the run
ValidationStops ==
    /\ pc = "button" /\ button
    /\ validation_error(gemini_api_key, transcript_text, video_id) # "none"
    /\ shown' = shown \cup {validation_error(gemini_api_key, transcript_text, video_id)}
    /\ pc' = "idle"
    /\ UNCHANGED <<video_id, widgetVars, recoveryVars, renderVars, button,
                   session_summary_data, downloads, summarize_calls, session_at_event>>

\* streamlit_app.py:196: the remote call raises, or answers some text
CallSummarize ==
    /\ pc = "button" /\ button
    /\ validation_error(gemini_api_key, transcript_text, video_id) = "none"
    /\ \E raises \in BOOLEAN, text \in UiTexts :
          /\ response_text' = (IF raises THEN <<>> ELSE text)
          /\ cleaned_response' = (IF raises THEN None ELSE Some(clean_gemini_response(text)))
          /\ summary_data' = summarize_with_gemini(raises, text)
    /\ summarize_calls' = summarize_calls + 1
    /\ pc' = "store"
    /\ UNCHANGED <<video_id, widgetVars, renderVars, button, session_summary_data,
                   shown, downloads, session_at_event>>

\* streamlit_app.py:198-200: st.experimental_rerun starts the script again
StoreAndRerun ==
    /\ pc = "store" /\ Truthy(summary_data)
    /\ session_summary_data' = summary_data
    /\ button' = FALSE
    /\ shown' = {}
    /\ pc' = "sidebar"
    /\ UNCHANGED <<video_id, widgetVars, recoveryVars, renderVars,
                   downloads, summarize_calls, session_at_event>>

\* streamlit_app.py:201-203
StoreFailure ==
    /\ pc = "store" /\ ~Truthy(summary_data)
    /\ session_summary_data' = JNone
    /\ shown' = shown \cup {"analysis_failed"}
    /\ pc' = "preview"
    /\ UNCHANGED <<video_id, widgetVars, recoveryVars, renderVars,
                   button, downloads, summarize_calls, session_at_event>>

\* streamlit_app.py:211-271: the preview, the two renderer calls on fresh
\* io.BytesIO buffers, the download buttons. An exception ends the run and
\* Streamlit shows it on the page.
PreviewColumn ==
    /\ pc = "preview" /\ Truthy(session_summary_data)
    /\ data' = session_summary_data
    /\ LET pdf == IF preview_ok(session_summary_data)
                  THEN save_to_pdf(session_summary_data, video_id, fonts_ok, output_path)
                  ELSE NotCalled
           excel == IF pdf.called /\ ~pdf.raised
                    THEN save_to_excel(session_summary_data, output_path)
                    ELSE NotCalled
           finished == excel.called /\ ~excel.raised
       IN  /\ pdf_call' = pdf
           /\ excel_call' = excel
           /\ downloads' = finished
           /\ shown' = shown \cup (IF session_summary_data.kind = "obj" THEN {"success"} ELSE {})
                             \cup (IF finished THEN {} ELSE {"exception"})
    /\ pc' = "idle"
    /\ UNCHANGED <<video_id, widgetVars, recoveryVars, output_path, fonts_ok, highlightVars,
                   button, session_summary_data, summarize_calls, session_at_event>>

\* streamlit_app.py:273-274
PreviewInfo ==
    /\ pc = "preview" /\ ~Truthy(session_summary_data)
    /\ shown' = shown \cup {"info"}
    /\ pc' = "idle"
    /\ UNCHANGED <<video_id, widgetVars, recoveryVars, renderVars,
                   button, session_summary_data, downloads, summarize_calls, session_at_event>>

Next ==
    \/ EditApiKey \/ EditUrl \/ EditTranscript \/ ClickGenerate
    \/ Sidebar \/ NoClick \/ ValidationStops \/ CallSummarize
    \/ StoreAndRerun \/ StoreFailure \/ PreviewColumn \/ PreviewInfo

Spec == Init /\ [][Next]_vars

\* What the specification says extractVideoId returns: the same search, the
\* identifier ending at the next `&`, `#`, `?` or path separator `/`.
SpecStop == {"&", "#", "?", "/"}

RECURSIVE extractVideoId_from(_, _)
extractVideoId_from(url, i) ==
    IF i > Len(patterns) THEN None
    ELSE IF SearchAfter(url, patterns[i], SpecStop).some
         THEN SearchAfter(url, patterns[i], SpecStop)
    ELSE extractVideoId_from(url, i + 1)

extractVideoId(url) == extractVideoId_from(url, 1)

\* C10: get_video_id returns, for the first of the five markers (in the order
\* v=, be/, live/, embed/, shorts/) that matches, the substring after it up to the
\* next `&`, `#`, `?` or `/`, and None when no marker matches.
C10_IdStopsAtDelimiter ==
    pc = "returned" => video_id = extractVideoId(video_url)

(***************************************************************************)
(* Response recovery as the specification states it (4.2, steps 1 to 3).   *)
(***************************************************************************)
FencePositions(t) == { i \in 1..Len(t) : Alt1At(t, i) }
OpenBraces(t) == { i \in 1..Len(t) : t[i] = "{" }
CloseBraces(t) == { i \in 1..Len(t) : t[i] = "}" }

\* step 1 and 2: the fenced interior if there is a fenced block; otherwise the
\* first opening brace through the greedily matched (last) closing brace;
\* otherwise the trimmed input
SpecCandidate(t) ==
    IF FencePositions(t) # {} THEN Group1(t, Min(FencePositions(t)))
    ELSE IF OpenBraces(t) # {} /\ \E k \in CloseBraces(t) : k > Min(OpenBraces(t))
         THEN SubSeq(t, Min(OpenBraces(t)), Max(CloseBraces(t)))
    ELSE strip(t)

\* a JSON object cut off after a complete member: it ends in a comma, and
\* closing it there gives an object with a main_subject
CutAfterMember(t) ==
    /\ Len(t) >= 2 /\ t[1] = "{" /\ t[Len(t)] = ","
    /\ LET closed == json_loads(Append(SubSeq(t, 1, Len(t) - 1), "}"))
       IN  closed.ok /\ closed.val.kind = "obj" /\ HasKey(closed.val.items, "main_subject")

\* C1: a response that is a JSON object truncated after a complete member
\* (trailing comma, no closing brace) is recovered: summarize_with_gemini returns
\* an object whose main_subject is the one before the cut, not None.
C1_TruncatedObjectRecovered ==
    (pc = "returned" /\ cleaned_response.some /\ CutAfterMember(response_text))
        => /\ summary_data.kind = "obj"
           /\ DictGet(summary_data.items, "main_subject", JNone) = JStr(<<"X">>)

\* C2: the candidate clean_gemini_response selects is the fenced block's
\* interior when the text holds a json-fenced block (even after an earlier
\* brace pair), and otherwise the first opening brace through the greedily
\* matched closing brace, so a nested object is returned whole.
C2_CandidateSelection ==
    cleaned_response.some => cleaned_response.v = SpecCandidate(response_text)

(***************************************************************************)
(* The renderers as the specification states them.                         *)
(***************************************************************************)
\* 4.1 canonicalUrl and withTimeOffset
canonicalUrl(vid) == <<"https://www.youtube.com/watch?v=">> \o VideoIdText(vid)
withTimeOffset(url, seconds) == url \o <<"&t=">> \o Decimal(seconds) \o <<"s">>

\* the sections a study guide presents: non-empty, main_subject aside
RECURSIVE PresentSections(_)
PresentSections(ms) ==
    IF ms = <<>> THEN <<>>
    ELSE (IF Head(ms).k # "main_subject" /\ Truthy(Head(ms).v) THEN <<Head(ms)>> ELSE <<>>)
         \o PresentSections(Tail(ms))

\* a guide of the shape the prompt asks for: every item a topic with details,
\* or a field-object with a time
WellFormed(d) ==
    /\ d.kind = "obj"
    /\ \A i \in 1..Len(d.items) :
          d.items[i].k # "main_subject" =>
              \A j \in 1..Len(d.items[i].v.items) :
                  d.items[i].v.items[j] \in NestedItems \cup FlatItems

\* the times of the facts of one item, in order: one per detail of a nested
\* item, one for a flat item
FactTimes(item) ==
    IF HasKey(item.items, "details")
    THEN LET ds == DictGet(item.items, "details", JNone).items
         IN  [i \in 1..Len(ds) |-> DictGet(ds[i].items, "time", JNum(0)).n]
    ELSE <<DictGet(item.items, "time", JNum(0)).n>>

RECURSIVE ItemsFactTimes(_), GuideFactTimes(_)
ItemsFactTimes(items) ==
    IF items = <<>> THEN <<>> ELSE FactTimes(Head(items)) \o ItemsFactTimes(Tail(items))
GuideFactTimes(secs) ==
    IF secs = <<>> THEN <<>> ELSE ItemsFactTimes(Head(secs).v.items) \o GuideFactTimes(Tail(secs))

\* the timestamp links of a document, in order
RECURSIVE LinksOf(_)
LinksOf(doc) ==
    IF doc = <<>> THEN <<>>
    ELSE (IF Head(doc).op = "link" THEN <<Head(doc)>> ELSE <<>>) \o LinksOf(Tail(doc))

SpecLinks(d, vid) ==
    LET times == GuideFactTimes(PresentSections(d.items))
    IN  [i \in 1..Len(times) |->
            LinkCell(format_timestamp(times[i]), withTimeOffset(canonicalUrl(vid), times[i]))]

\* C4: every timestamp link of the document, one per nested detail and one per
\* flat item, targets the canonical URL https://www.youtube.com/watch?v=<video_id>
\* followed by &t=<time>s for that fact's own time, labelled format_timestamp(time).
C4_LinksTargetCanonicalUrl ==
    (pdf_call.called /\ pdf_call.sink = "path" /\ WellFormed(data) /\ video_id.some)
        => LinksOf(pdf_call.bytes) = SpecLinks(data, video_id)

\* the columns 4.5 gives the row of one leaf: Section, Topic for a nested
\* section, a column per remaining field, and the time as Time (s)
SpecColumn(key) == IF key = "time" THEN "Time (s)" ELSE Humanize(key)
SpecLeafColumns(nested, leaf) ==
    {"Section"} \cup (IF nested THEN {"Topic"} ELSE {})
                \cup { SpecColumn(leaf.items[i].k) : i \in 1..Len(leaf.items) }

SpecItemColumns(item) ==
    IF HasKey(item.items, "details")
    THEN LET ds == DictGet(item.items, "details", JNone).items
         IN  [i \in 1..Len(ds) |-> SpecLeafColumns(TRUE, ds[i])]
    ELSE <<SpecLeafColumns(FALSE, item)>>

RECURSIVE SpecItemsColumns(_), SpecGuideColumns(_)
SpecItemsColumns(items) ==
    IF items = <<>> THEN <<>> ELSE SpecItemColumns(Head(items)) \o SpecItemsColumns(Tail(items))
SpecGuideColumns(secs) ==
    IF secs = <<>> THEN <<>>
    ELSE SpecItemsColumns(Head(secs).v.items) \o SpecGuideColumns(Tail(secs))

HasMarkup(t) == \E i \in 1..Len(t) : OccursAt(t, HL_OPEN, i) \/ OccursAt(t, HL_CLOSE, i)
ColumnsOf(row) == { row[i].k : i \in 1..Len(row) }

\* C5: every leaf row of the table (a detail of a nested section or an item of a
\* flat section) has the column Section, has Topic only when nested, has one
\* column per remaining field under the humanized key with the highlight markup
\* removed, and carries the time under the column Time (s).
C5_LeafRowColumns ==
    (excel_call.called /\ excel_call.sink = "path" /\ WellFormed(data))
        => /\ [i \in 1..Len(excel_call.bytes) |-> ColumnsOf(excel_call.bytes[i])]
                  = SpecGuideColumns(PresentSections(data.items))
           /\ \A i \in 1..Len(excel_call.bytes) : \A j \in 1..Len(excel_call.bytes[i]) :
                  ~HasMarkup(excel_call.bytes[i][j].v.s)

ExpectedHeadings == { <<Humanize(k)>> : k \in EXPECTED_KEYS }

\* C6: only the seven expected top-level keys influence the output: neither
\* renderer emits a heading or a row for any other top-level key.
C6_OnlyExpectedKeys ==
    /\ (pdf_call.called /\ pdf_call.sink = "path") =>
           \A i \in 1..Len(pdf_call.bytes) :
               pdf_call.bytes[i].op = "heading" => pdf_call.bytes[i].text \in ExpectedHeadings
    /\ (excel_call.called /\ excel_call.sink = "path") =>
           \A i \in 1..Len(excel_call.bytes) :
               DictGet(excel_call.bytes[i], "Section", JNone).s \in ExpectedHeadings

\* what the caller of a renderer receives: an exception or a return value
Signal(call) == <<call.raised, call.ret>>
\* ... and what it receives from a call that rendered and wrote its target
SuccessSignal == <<FALSE, "None">>

\* C8: when generation fails inside save_to_pdf or save_to_excel, the caller
\* receives a signal it can tell from success.
C8_RenderFailureSignalled ==
    /\ (pdf_call.called /\ pdf_call.caught) => Signal(pdf_call) # SuccessSignal
    /\ (excel_call.called /\ excel_call.caught) => Signal(excel_call) # SuccessSignal

\* C9: both renderers accept an in-memory buffer: no exception reaches the
\* caller and what was rendered ends up in the buffer; with a path-like target
\* it is written at that path.
C9_BufferTargetAccepted ==
    /\ pdf_call.called =>
           /\ ~pdf_call.raised
           /\ ~pdf_call.caught => pdf_call.sink = (IF output_path = "BytesIO" THEN "buffer" ELSE "path")
    /\ excel_call.called =>
           /\ ~excel_call.raised
           /\ ~excel_call.caught => excel_call.sink = (IF output_path = "BytesIO" THEN "buffer" ELSE "path")

\* the model answered text that holds no JSON object at all, or the call raised
NoObjectOrFailure ==
    \/ ~cleaned_response.some
    \/ \A i \in 1..Len(response_text) : response_text[i] # "{"

\* C3: for a model output that holds no JSON object, and for a failed remote
\* call, summarize_with_gemini returns None (never a value parsed from garbage);
\* the page then clears summary_data, shows the analysis-failed message and
\* offers no downloads.
C3_GarbageGivesNoResult ==
    (summarize_calls > 0 /\ NoObjectOrFailure)
        => /\ summary_data = JNone
           /\ pc # "store" => (session_summary_data = JNone /\ ~downloads)
           /\ pc = "idle" => "analysis_failed" \in shown

\* all three inputs pass: a key, a transcript that is not blank, a URL with a video id
InputsPass ==
    /\ gemini_api_key # <<>>
    /\ \E i \in 1..Len(transcript_text) : ~IsSpace(transcript_text[i])
    /\ get_video_id(video_url).some

\* C7: the remote call happens only after all three inputs passed validation:
\* in a run of Generate Study Guide with an empty key, a blank transcript or a
\* URL without a video id, an error is shown, summarize_with_gemini is not
\* called and the session's summary_data is left as it was.
C7_CallOnlyAfterValidation ==
    /\ summarize_calls > 0 => InputsPass
    /\ (button /\ pc = "idle" /\ ~InputsPass)
           => /\ summarize_calls = 0
              /\ session_summary_data = session_at_event
              /\ shown \cap ValidationErrors # {}

\* C7 witness: a click with a URL that has no video id ended on the error,
\* with the study guide of an earlier run still in the session
C7_Witness ==
    /\ button /\ pc = "idle"
    /\ "invalid_url" \in shown
    /\ summarize_calls = 0
    /\ Truthy(session_summary_data)

\* utils.py:264-279: the branch save_to_pdf takes on one item of a section.
\* item.values() exists on a mapping only.
pdf_branch(item) ==
    IF item.kind # "obj" THEN "raises"
    ELSE IF is_nested(item) THEN "nested" ELSE "flat"

\* utils.py:146-160: the branch save_to_excel takes on one item of a section
excel_branch(item) ==
    IF item.kind # "obj" THEN "item"
    ELSE IF has_details_list(item) THEN "nested" ELSE "flat"

\* the items of the sections a renderer walks
SectionItems(d) ==
    LET secs == PresentSections(d.items)
    IN  UNION { { secs[i].v.items[j] : j \in 1..Len(secs[i].v.items) } : i \in 1..Len(secs) }

\* 3: an item is nested if any of its field values is itself a list, otherwise flat
SpecBranch(item) ==
    IF item.kind = "obj" /\ \E i \in 1..Len(item.items) : item.items[i].v.kind = "list"
    THEN "nested" ELSE "flat"

\* C11: both renderers classify every section item alike, nested exactly when
\* some field value of the item is a list, whatever the name of that field and
\* also when the item is no mapping.
C11_SameClassification ==
    (pdf_call.called /\ excel_call.called /\ output_path = "Path" /\ data.kind = "obj")
        => \A item \in SectionItems(data) :
               /\ pdf_branch(item) = SpecBranch(item)
               /\ excel_branch(item) = SpecBranch(item)

\* 4.4: the leftmost <hl> that has a </hl> after it opens a span, closed by the
\* first </hl> after it; spans do not nest
SpanOpens(t) ==
    { i \in 1..Len(t) : OccursAt(t, HL_OPEN, i)
                        /\ \E j \in (i + 4)..Len(t) : OccursAt(t, HL_CLOSE, j) }
SpanClose(t, i) == Min({ j \in (i + 4)..Len(t) : OccursAt(t, HL_CLOSE, j) })

\* 4.4: the segments of a text, in order: the text between the tags of every
\* span as a highlighted run, everything outside the spans, unmatched tags
\* included, as literal text
RECURSIVE SpecSegments(_)
SpecSegments(t) ==
    IF SpanOpens(t) = {} THEN <<Draw("write", t)>>
    ELSE LET i == Min(SpanOpens(t))
             j == SpanClose(t, i)
         IN  <<Draw("write", SubSeq(t, 1, i - 1)), Draw("highlight", SubSeq(t, i + 4, j - 1))>>
             \o SpecSegments(SubSeq(t, j + 5, Len(t)))

\* the calls that put something on the page: a write of no characters does not
RECURSIVE Visible(_)
Visible(ops) ==
    IF ops = <<>> THEN <<>>
    ELSE (IF Head(ops).op = "write" /\ Head(ops).text = <<>> THEN <<>> ELSE <<Head(ops)>>)
         \o Visible(Tail(ops))

\* C12: write_highlighted_text renders every matched <hl>...</hl> pair as one
\* highlighted run holding the text between the tags, and every character
\* outside the matched pairs, unmatched tags included, as literal text in order.
C12_OutsidePairsLiteral ==
    (pc = "returned" /\ written # <<>>) => Visible(written) = Visible(SpecSegments(hl_text))

\* C13: over any sequence of user events and reruns, whenever the preview
\* column calls save_to_pdf on the stored study guide, the video_id it passes is
\* an id extracted from the URL, never None.
C13_PdfCallHasVideoId ==
    pdf_call.called => (video_id.some /\ video_id.v # <<>>)

====
